---- MODULE Spec2Model ----
(***************************************************************************)
(* Model of the two algorithmic helpers of web3-extensions' network module *)
(* (src/unnamed/part_001): the block locator findBlock and the fee         *)
(* estimator estimateGasPrice, each run against an RPC client that the     *)
(* model plays as the environment.                                         *)
(*                                                                         *)
(* Arithmetic.  The code computes in IEEE doubles.  Every quantity is kept *)
(* here as an exact integer multiple of a fixed unit:                      *)
(*   - the target is kept in milliseconds (the argument `timestamp`);      *)
(*   - avgBlockDurationSec is kept times 10000 (avgScaled);                *)
(*   - a distance in seconds is kept times 10000 (DistScaled).             *)
(* Where the exact value of a quotient or a comparison sits on a boundary  *)
(* and an operand is not exactly representable as a double, the result of  *)
(* the code depends on the rounding of the operands; the model then takes  *)
(* every outcome rounding can produce and records it in `inexact`.         *)
(***************************************************************************)
EXTENDS Integers, Sequences, FiniteSets, TLC

VARIABLES
    chain,            \* the block timestamps the RPC client serves (parameters)
    head,             \* number of the chain's latest block
    mined,            \* blocks mined since the call started
    target,           \* findBlock's argument `timestamp` (milliseconds)
    fbpc,             \* position of findBlock: "head", "ref", "loop", "done", "idle"
    currentBlock,     \* findBlock's currentBlock
    candidate,        \* findBlock's candidate
    avgScaled,        \* findBlock's avgBlockDurationSec, times 10000
    closestDistance,  \* findBlock's closestDistance (Infinity is a sentinel)
    calls,            \* the identifiers passed to web3().eth.getBlock, in order
    inexact,          \* a rounding-dependent outcome was taken in this run
    fbResult,         \* outcome of findBlock
    gpc,              \* position of estimateGasPrice: "start", "await", "done", "idle"
    attempt,          \* the attempt keepTrying is running, from 1
    latestNumber,     \* what getBlockNumber answers now
    ticks,            \* blocks the chain gained during the call
    pendingFee,       \* the pending block's baseFeePerGas field, if it has one
    feeRows,          \* the reward rows getFeeHistory answers with
    reqPending,       \* this attempt's getBlock("pending") request
    reqNumber,        \* this attempt's getBlockNumber request
    reqHistory,       \* this attempt's getFeeHistory request, with its catch
    gResult,          \* outcome of estimateGasPrice
    web3Instance,     \* the module's `let web3Instance`
    hardhat,          \* the client `require("hardhat").web3` gives when NODE is set
    cpc,              \* the client accessors are in use: "live", or "idle"
    firstSet,         \* the first handle passed to setWeb3Instance
    lastSet,          \* the argument of the latest setWeb3Instance call
    lastCall          \* the latest accessor call and what it gave

findVars == <<chain, head, mined, target, fbpc, currentBlock, candidate,
              avgScaled, closestDistance, calls, inexact, fbResult>>

gasVars == <<gpc, attempt, latestNumber, ticks, pendingFee, feeRows,
             reqPending, reqNumber, reqHistory, gResult>>

clientVars == <<web3Instance, hardhat, cpc, firstSet, lastSet, lastCall>>

vars == <<findVars, gasVars, clientVars>>

----------------------------------------------------------------------------
(* Bounds of the model and constants of the program *)

\* findBlock's look-back, `10_000`
LOOKBACK == 10000

\* milliseconds per second, `timestamp / 1000`
MILLIS == 1000

\* blocks the chain may gain while one call is in flight
MaxMined == 1

\* heads above LOOKBACK that the initial chains take: LOOKBACK + 1 .. LOOKBACK + HeadSlack
HeadSlack == 2

Abs(x) == IF x < 0 THEN -x ELSE x

Max(a, b) == IF a >= b THEN a ELSE b

Min(a, b) == IF a <= b THEN a ELSE b

\* Number.POSITIVE_INFINITY, the initial closestDistance
Infinity == -1

----------------------------------------------------------------------------
(* The RPC client: a chain of blocks with non-decreasing integer timestamps *)

\* seconds per block as <<numerator, denominator>>: 12 s, 2 s, 1 s, 4 blocks
\* per second, and blocks that all carry one timestamp
Rates == {<<12, 1>>, <<2, 1>>, <<1, 1>>, <<1, 4>>, <<0, 1>>}

\* a chain: genesis timestamp, the rate up to block `pivot`, the rate after it
Chains ==
    [genesis : {0, 7}, pivot : {LOOKBACK \div 2}, early : Rates, late : Rates]

\* the timestamp (seconds) of block n of chain ch
Timestamp(ch, n) ==
    ch.genesis
      + (Min(n, ch.pivot) * ch.early[1]) \div ch.early[2]
      + (Max(n - ch.pivot, 0) * ch.late[1]) \div ch.late[2]

\* identifiers handed to getBlock: the string "latest" or a number
Latest == [tag |-> "latest", n |-> 0]

Num(n) == [tag |-> "number", n |-> n]

\* a BlockInfo, and the two ways getBlock fails to give one
BlockInfo(ch, n) == [ok |-> TRUE, number |-> n, timestamp |-> Timestamp(ch, n)]

NoBlock == [ok |-> FALSE, number |-> 0, timestamp |-> 0]

\* web3().eth.getBlock(id) followed by block()'s read of r.timestamp:
\* "latest" gives the head; a number above the head gives null, whose
\* .timestamp throws; a negative number is rejected by the client
getBlock(ch, h, id) ==
    IF id.tag = "latest" THEN BlockInfo(ch, h)
    ELSE IF id.n < 0 \/ id.n > h THEN NoBlock
    ELSE BlockInfo(ch, id.n)

\* block(blockHashOrBlockNumber): `blockHashOrBlockNumber || "latest"` sends
\* "latest" for a missing argument and for the number 0
BlockArg(n) == IF n = 0 THEN Latest ELSE Num(n)

block(ch, h, n) == getBlock(ch, h, BlockArg(n))

\* block() with no argument
blockLatest(ch, h) == getBlock(ch, h, Latest)

----------------------------------------------------------------------------
(* findBlock *)

\* head numbers of the initial chains: below, at and above the look-back
Heads == {LOOKBACK \div 2, LOOKBACK} \cup (LOOKBACK + 1 .. LOOKBACK + HeadSlack)

\* block numbers whose timestamps the targets are taken around
TargetBlocks(h) == {0, 1, LOOKBACK \div 2 - 1, h - 1, h} \cup {n \in {h - LOOKBACK} : n >= 0}

\* the arguments of findBlock: a block's own timestamp, or 1 ms, half a
\* second and six seconds after it (the last ones may lie after the head)
Targets(ch, h) ==
    {MILLIS * Timestamp(ch, k) + off : k \in TargetBlocks(h), off \in {0, 1, 500, 6000}}

\* most getBlock requests one call may issue in the model
MaxCalls == 40

\* (candidate.timestamp - targetTimestampSecs), times 10000
DistScaled(c, t) == (MILLIS * c.timestamp - t) * (LOOKBACK \div MILLIS)

\* Math.max(1, (currentBlock.timestamp - candidate.timestamp) / 10_000), times 10000
AvgScaled(cur, c) == Max(LOOKBACK, cur.timestamp - c.timestamp)

\* timestamp / 1000 and the average are exactly representable doubles
FpExact(t, avg) == t % 125 = 0 /\ avg % 625 = 0

\* Math.abs(candidate.timestamp - targetTimestampSecs) >= avgBlockDurationSec:
\* the outcomes of the comparison (one, unless rounding decides)
LoopTests(c, t, avg) ==
    IF Abs(DistScaled(c, t)) = avg /\ ~FpExact(t, avg) THEN {TRUE, FALSE}
    ELSE {Abs(DistScaled(c, t)) >= avg}

\* Math.floor(distanceInSeconds / avgBlockDurationSec): the outcomes
EstDistanceInBlocks(c, t, avg) ==
    LET q == DistScaled(c, t) \div avg
    IN  IF DistScaled(c, t) % avg = 0 /\ ~FpExact(t, avg) THEN {q, q - 1} ELSE {q}

\* the loop test or the floor sits on a rounding boundary
RoundingDecides(c, t, avg) ==
    /\ ~FpExact(t, avg)
    /\ DistScaled(c, t) # 0
    /\ DistScaled(c, t) % avg = 0

\* a variant of InFuture that also refuses the head's own timestamp
InFutureOrNow(t, cur) == t >= MILLIS * cur.timestamp

\* targetTimestampSecs > currentBlock.timestamp
InFuture(t, cur) == t > MILLIS * cur.timestamp

\* Math.abs(estDistanceInBlocks) > closestDistance
Grows(est, closest) == closest # Infinity /\ Abs(est) > closest

Pending == [kind |-> "pending", block |-> NoBlock, reported |-> 0]

Returned(b) == [kind |-> "ok", block |-> b, reported |-> 0]

\* `throw new Error(... is in the future)`
FutureError == [kind |-> "future", block |-> NoBlock, reported |-> 0]

\* `throw new Error(... before the genesis block at ${(await block(0)).timestamp})`
GenesisError(b) == [kind |-> "genesis", block |-> NoBlock, reported |-> b.timestamp]

\* a rejected getBlock, or the TypeError of reading null.timestamp
RpcError == [kind |-> "failed", block |-> NoBlock, reported |-> 0]

FindStart ==
    /\ chain \in Chains
    /\ head \in Heads
    /\ target \in Targets(chain, head)
    /\ mined = 0
    /\ fbpc = "head"
    /\ currentBlock = NoBlock
    /\ candidate = NoBlock
    /\ avgScaled = 0
    /\ closestDistance = Infinity
    /\ calls = << >>
    /\ inexact = FALSE
    /\ fbResult = Pending

\* no findBlock call is running
FindIdle ==
    /\ chain = [genesis |-> 0, pivot |-> 0, early |-> <<1, 1>>, late |-> <<1, 1>>]
    /\ head = 0
    /\ target = 0
    /\ mined = 0
    /\ fbpc = "idle"
    /\ currentBlock = NoBlock
    /\ candidate = NoBlock
    /\ avgScaled = 0
    /\ closestDistance = Infinity
    /\ calls = << >>
    /\ inexact = FALSE
    /\ fbResult = Pending

\* the chain gains a block while findBlock awaits a response
Mine ==
    /\ fbpc \in {"head", "ref", "loop"}
    /\ mined < MaxMined
    /\ head' = head + 1
    /\ mined' = mined + 1
    /\ UNCHANGED <<chain, target, fbpc, currentBlock, candidate, avgScaled,
                   closestDistance, calls, inexact, fbResult>>
    /\ UNCHANGED <<gasVars, clientVars>>

\* lines 145-147: the head block and the future test
FetchHead ==
    /\ fbpc = "head"
    /\ LET cur == blockLatest(chain, head)
       IN  /\ calls' = Append(calls, Latest)
           /\ currentBlock' = cur
           /\ IF InFuture(target, cur)
              THEN /\ fbResult' = FutureError
                   /\ fbpc' = "done"
              ELSE /\ fbpc' = "ref"
                   /\ UNCHANGED fbResult
    /\ UNCHANGED <<chain, head, mined, target, candidate, avgScaled,
                   closestDistance, inexact>>
    /\ UNCHANGED <<gasVars, clientVars>>

\* lines 149-150: the reference block and the average block duration
FetchRef ==
    /\ fbpc = "ref"
    /\ LET n == currentBlock.number - LOOKBACK
           r == block(chain, head, n)
       IN  /\ calls' = Append(calls, BlockArg(n))
           /\ IF r.ok
              THEN /\ candidate' = r
                   /\ avgScaled' = AvgScaled(currentBlock, r)
                   /\ fbpc' = "loop"
                   /\ UNCHANGED fbResult
              ELSE /\ fbResult' = RpcError
                   /\ fbpc' = "done"
                   /\ UNCHANGED <<candidate, avgScaled>>
    /\ UNCHANGED <<chain, head, mined, target, currentBlock, closestDistance, inexact>>
    /\ UNCHANGED <<gasVars, clientVars>>

\* lines 164-177: one evaluation of the loop test and, when it holds, one
\* pass of the loop body up to its await; otherwise the return
SearchStep ==
    /\ fbpc = "loop"
    /\ Len(calls) < MaxCalls
    /\ inexact' = (inexact \/ RoundingDecides(candidate, target, avgScaled))
    /\ \E test \in LoopTests(candidate, target, avgScaled) :
       \E est \in EstDistanceInBlocks(candidate, target, avgScaled) :
         LET targeting == candidate.number - est
             r == block(chain, head, targeting)
         IN  IF ~test \/ Grows(est, closestDistance)
             THEN /\ fbResult' = Returned(candidate)
                  /\ fbpc' = "done"
                  /\ UNCHANGED <<candidate, closestDistance, calls>>
             ELSE /\ closestDistance' = Abs(est)
                  /\ IF targeting < 0
                     THEN /\ calls' = Append(calls, BlockArg(0))
                          /\ fbResult' = GenesisError(block(chain, head, 0))
                          /\ fbpc' = "done"
                          /\ UNCHANGED candidate
                     ELSE /\ calls' = Append(calls, BlockArg(targeting))
                          /\ IF r.ok
                             THEN /\ candidate' = r
                                  /\ fbpc' = "loop"
                                  /\ UNCHANGED fbResult
                             ELSE /\ fbResult' = RpcError
                                  /\ fbpc' = "done"
                                  /\ UNCHANGED candidate
    /\ UNCHANGED <<chain, head, mined, target, currentBlock, avgScaled>>
    /\ UNCHANGED <<gasVars, clientVars>>

----------------------------------------------------------------------------
(* estimateGasPrice *)

\* `1e8`, the base fee taken when the pending block carries none
DEFAULT_BASE_FEE == 100000000

\* attempts keepTrying makes before it rethrows
MaxAttempts == 2

\* blocks the chain may gain while one call is in flight
MaxTicks == 1

\* most rows a fee history holds in the model
MaxRows == 3

\* a reward is a hex string; it is kept as the sequence of its digits after
\* "0x", so "0x10" is <<1, 0>> and "0xa" is <<10>>
RewardRows ==
    { << <<1>>, <<2>>, <<3>> >>,
      << <<3>>, <<4>>, <<5>> >>,
      << <<5>>, <<6>>, <<7>> >>,
      << <<0>>, <<6>>, <<6>> >>,
      << <<1, 0>>, <<10>>, <<2>> >> }

RECURSIVE SeqsUpTo(_, _)
\* the sequences over S of length at most n
SeqsUpTo(S, n) ==
    IF n = 0 THEN {<< >>}
    ELSE LET shorter == SeqsUpTo(S, n - 1)
         IN  shorter \cup {Append(q, x) : q \in shorter, x \in S}

\* the pending block's baseFeePerGas: absent, or a number of wei
BaseFeeFields ==
    {[has |-> FALSE, fee |-> 0]} \cup {[has |-> TRUE, fee |-> f] : f \in {0, 1, 3}}

RECURSIVE HexValue(_)
\* bn(x, 16): the number a hex string denotes
HexValue(digits) ==
    IF digits = << >> THEN 0
    ELSE 16 * HexValue(SubSeq(digits, 1, Len(digits) - 1)) + digits[Len(digits)]

\* a variant of TierSamples that reads the first percentile for every tier
TierSamplesFirst(reward, i) == [k \in 1 .. Len(reward) |-> HexValue(reward[k][1])]

\* a variant of TierSamples that reads the percentiles in the opposite order
TierSamplesReversed(reward, i) == [k \in 1 .. Len(reward) |-> HexValue(reward[k][4 - i])]

\* _.map(history.reward, (r) => bn(r[i], 16))
TierSamples(reward, i) == [k \in 1 .. Len(reward) |-> HexValue(reward[k][i])]

\* median(samples), times 2: zero for no samples, the middle one of an odd
\* number, the mean of the two central ones of an even number
Median2(samples) ==
    LET n == Len(samples)
        sorted == SortSeq(samples, LAMBDA a, b : a < b)
    IN  IF n = 0 THEN 0
        ELSE IF n % 2 = 1 THEN 2 * sorted[(n + 1) \div 2]
        ELSE sorted[n \div 2] + sorted[n \div 2 + 1]

\* BigNumber.integerValue() of a non-negative number of quarters: to the
\* nearest integer, a half going up
IntegerValue(quarters) == (quarters + 2) \div 4

\* pendingBlock.baseFeePerGas || 1e8
BaseFeePerGas(pb) == IF pb.has /\ pb.fee # 0 THEN pb.fee ELSE DEFAULT_BASE_FEE

\* { max: baseFeePerGas.times(1.25).plus(m).integerValue(), tip: m.integerValue() }
\* for m = median2 / 2
Tier(baseFee, median2) ==
    [max |-> IntegerValue(5 * baseFee + 2 * median2), tip |-> IntegerValue(2 * median2)]

\* what the RPC client answers to getBlock("pending") now
PendingBlock ==
    [number |-> latestNumber + 1, has |-> pendingFee.has, fee |-> pendingFee.fee,
     timestamp |-> 12 * (latestNumber + 1)]

NoTier == [max |-> 0, tip |-> 0]

NoEstimate(k) ==
    [kind |-> k, slow |-> NoTier, med |-> NoTier, fast |-> NoTier,
     baseFeePerGas |-> 0, pendingBlockNumber |-> 0, pendingBlockTimestamp |-> 0]

\* a variant of PendingBlockNumber that reads the pending block's own number
PendingBlockNumberOfBlock(pendingBlock, latestBlockNumber) == pendingBlock.number

\* pendingBlockNumber: latestBlockNumber + 1
PendingBlockNumber(pendingBlock, latestBlockNumber) == latestBlockNumber + 1

\* lines 234-248: the record the attempt returns
FeeEstimate(pendingBlock, latestBlockNumber, reward) ==
    LET baseFeePerGas == BaseFeePerGas(pendingBlock)
    IN  [kind |-> "ok",
         slow |-> Tier(baseFeePerGas, Median2(TierSamples(reward, 1))),
         med |-> Tier(baseFeePerGas, Median2(TierSamples(reward, 2))),
         fast |-> Tier(baseFeePerGas, Median2(TierSamples(reward, 3))),
         baseFeePerGas |-> baseFeePerGas,
         pendingBlockNumber |-> PendingBlockNumber(pendingBlock, latestBlockNumber),
         pendingBlockTimestamp |-> pendingBlock.timestamp]

\* a request: in flight, fulfilled with a value, or rejected
\* `failed` records that the RPC client rejected the request
InFlight(v) == [st |-> "inflight", val |-> v, failed |-> FALSE]

Fulfilled(v) == [st |-> "ok", val |-> v, failed |-> FALSE]

Rejected(v) == [st |-> "err", val |-> v, failed |-> TRUE]

\* a variant of CatchHistory that lets the rejection through
CatchHistoryRethrows(r) == r

\* .catch(() => ({ reward: [] })): a rejected fee history is fulfilled with
\* no rows
CatchHistory(r) == IF r.st = "err" THEN [r EXCEPT !.st = "ok", !.val = << >>] ELSE r

NoPendingBlock == [number |-> 0, has |-> FALSE, fee |-> 0, timestamp |-> 0]

GasStart ==
    /\ gpc = "start"
    /\ attempt = 1
    /\ latestNumber \in {100}
    /\ ticks = 0
    /\ pendingFee \in BaseFeeFields
    /\ feeRows \in SeqsUpTo(RewardRows, MaxRows)
    /\ reqPending = InFlight(NoPendingBlock)
    /\ reqNumber = InFlight(0)
    /\ reqHistory = InFlight(<< >>)
    /\ gResult = NoEstimate("pending")

\* no estimateGasPrice call is running
GasIdle ==
    /\ gpc = "idle"
    /\ attempt = 1
    /\ latestNumber = 0
    /\ ticks = 0
    /\ pendingFee = [has |-> FALSE, fee |-> 0]
    /\ feeRows = << >>
    /\ reqPending = InFlight(NoPendingBlock)
    /\ reqNumber = InFlight(0)
    /\ reqHistory = InFlight(<< >>)
    /\ gResult = NoEstimate("pending")

\* whether keepTrying, after a failed attempt, makes another
TriesAgain(att) == att < MaxAttempts

\* a variant of AllRejected that overlooks the block-number request
AllRejectedButNumber(p, n, h) == p.st = "err" \/ h.st = "err"

\* Promise.all over the three requests: rejected once one of them is,
\* fulfilled once all three are
AllRejected(p, n, h) == p.st = "err" \/ n.st = "err" \/ h.st = "err"

AllFulfilled(p, n, h) == p.st = "ok" /\ n.st = "ok" /\ h.st = "ok"

\* what follows a response that leaves the requests as p, n, h: the attempt
\* returns its estimate, or throws and keepTrying starts another attempt or
\* rethrows after its last one, or the attempt keeps waiting
Settle(p, n, h) ==
    IF AllRejected(p, n, h)
    THEN IF TriesAgain(attempt)
         THEN /\ attempt' = attempt + 1
              /\ gpc' = "start"
              /\ UNCHANGED gResult
         ELSE /\ gResult' = NoEstimate("error")
              /\ gpc' = "done"
              /\ UNCHANGED attempt
    ELSE IF AllFulfilled(p, n, h)
    THEN /\ gResult' = FeeEstimate(p.val, n.val, h.val)
         /\ gpc' = "done"
         /\ UNCHANGED attempt
    ELSE UNCHANGED <<gpc, attempt, gResult>>

\* the chain gains a block while estimateGasPrice awaits
Tick ==
    /\ gpc \in {"start", "await"}
    /\ ticks < MaxTicks
    /\ ticks' = ticks + 1
    /\ latestNumber' = latestNumber + 1
    /\ UNCHANGED <<gpc, attempt, pendingFee, feeRows, reqPending, reqNumber,
                   reqHistory, gResult>>
    /\ UNCHANGED <<findVars, clientVars>>

\* lines 228-233: keepTrying invokes the operation, which issues the three requests
StartAttempt ==
    /\ gpc = "start"
    /\ gpc' = "await"
    /\ reqPending' = InFlight(NoPendingBlock)
    /\ reqNumber' = InFlight(0)
    /\ reqHistory' = InFlight(<< >>)
    /\ UNCHANGED <<attempt, latestNumber, ticks, pendingFee, feeRows, gResult>>
    /\ UNCHANGED <<findVars, clientVars>>

\* w3.eth.getBlock("pending") settles
PendingBlockResponds ==
    /\ gpc = "await"
    /\ reqPending.st = "inflight"
    /\ \E r \in {Fulfilled(PendingBlock), Rejected(NoPendingBlock)} :
         /\ reqPending' = r
         /\ Settle(r, reqNumber, reqHistory)
    /\ UNCHANGED <<latestNumber, ticks, pendingFee, feeRows, reqNumber, reqHistory>>
    /\ UNCHANGED <<findVars, clientVars>>

\* w3.eth.getBlockNumber() settles
BlockNumberResponds ==
    /\ gpc = "await"
    /\ reqNumber.st = "inflight"
    /\ \E r \in {Fulfilled(latestNumber), Rejected(0)} :
         /\ reqNumber' = r
         /\ Settle(reqPending, r, reqHistory)
    /\ UNCHANGED <<latestNumber, ticks, pendingFee, feeRows, reqPending, reqHistory>>
    /\ UNCHANGED <<findVars, clientVars>>

\* w3.eth.getFeeHistory(length, "pending", percentiles) settles
FeeHistoryResponds ==
    /\ gpc = "await"
    /\ reqHistory.st = "inflight"
    /\ \E r \in {Fulfilled(feeRows), Rejected(<< >>)} :
         /\ reqHistory' = CatchHistory(r)
         /\ Settle(reqPending, reqNumber, CatchHistory(r))
    /\ UNCHANGED <<latestNumber, ticks, pendingFee, feeRows, reqPending, reqNumber>>
    /\ UNCHANGED <<findVars, clientVars>>

----------------------------------------------------------------------------
(* The process-wide client handle: web3, setWeb3Instance, hasWeb3Instance *)

\* client handles a caller may pass to setWeb3Instance
Handles == {"A", "B"}

\* the handle the framework injects
HardhatHandle == "H"

\* undefined: the unset `web3Instance`, or a missing argument or client
NoHandle == "undefined"

\* `if (web3Instance)`, `!!web3Instance`
Truthy(h) == h # NoHandle

\* the sentinel of lastSet before any setWeb3Instance call
Never == "never"

NoCall == [op |-> "none", gave |-> NoHandle]

\* a variant of SetInstance that keeps a handle once one is set
SetInstanceOnce(current, h) == IF Truthy(current) THEN current ELSE h

\* setWeb3Instance: `web3Instance = web3`
SetInstance(current, h) == h

\* web3(), lines 101-104: the instance after the lazy injection
Injected(current, hh) == IF Truthy(current) THEN current ELSE hh

ClientStart ==
    /\ web3Instance = NoHandle
    /\ hardhat \in {NoHandle, HardhatHandle}
    /\ cpc = "live"
    /\ firstSet = NoHandle
    /\ lastSet = Never
    /\ lastCall = NoCall

\* the client accessors are not in use
ClientIdle ==
    /\ web3Instance = NoHandle
    /\ hardhat = NoHandle
    /\ cpc = "idle"
    /\ firstSet = NoHandle
    /\ lastSet = Never
    /\ lastCall = NoCall

\* setWeb3Instance(h)
setWeb3Instance ==
    /\ cpc = "live"
    /\ \E h \in Handles \cup {NoHandle} :
         /\ web3Instance' = SetInstance(web3Instance, h)
         /\ firstSet' = IF Truthy(firstSet) THEN firstSet ELSE h
         /\ lastSet' = h
         /\ lastCall' = [op |-> "setWeb3Instance", gave |-> NoHandle]
    /\ UNCHANGED <<hardhat, cpc>>
    /\ UNCHANGED <<findVars, gasVars>>

\* web3(): returns the instance, injecting the framework's client first when
\* none is set, or throws
web3 ==
    /\ cpc = "live"
    /\ web3Instance' = Injected(web3Instance, hardhat)
    /\ lastCall' = [op |-> "web3",
                    gave |-> IF Truthy(web3Instance') THEN web3Instance' ELSE "error"]
    /\ UNCHANGED <<hardhat, cpc, firstSet, lastSet>>
    /\ UNCHANGED <<findVars, gasVars>>

\* hasWeb3Instance()
hasWeb3Instance ==
    /\ cpc = "live"
    /\ lastCall' = [op |-> "hasWeb3Instance",
                    gave |-> IF Truthy(web3Instance) THEN "true" ELSE "false"]
    /\ UNCHANGED <<web3Instance, hardhat, cpc, firstSet, lastSet>>
    /\ UNCHANGED <<findVars, gasVars>>

----------------------------------------------------------------------------
(* The specification: one call of findBlock, or one of estimateGasPrice, or *)
(* any sequence of calls of the client accessors                             *)

Init ==
    \/ FindStart /\ GasIdle /\ ClientIdle
    \/ GasStart /\ FindIdle /\ ClientIdle
    \/ ClientStart /\ FindIdle /\ GasIdle

Next ==
    \/ Mine
    \/ FetchHead
    \/ FetchRef
    \/ SearchStep
    \/ Tick
    \/ StartAttempt
    \/ PendingBlockResponds
    \/ BlockNumberResponds
    \/ FeeHistoryResponds
    \/ setWeb3Instance
    \/ web3
    \/ hasWeb3Instance

Spec == Init /\ [][Next]_vars
----------------------------------------------------------------------------
(* Properties of findBlock *)

\* the block numbers the call has passed to getBlock
QueriedNumbers == {calls[i].n : i \in {j \in 1 .. Len(calls) : calls[j].tag = "number"}}

\* the run is one of a chain that stood still, decided by no rounding
Settled == fbpc = "done" /\ mined = 0 /\ ~inexact

\* C1: findBlock never passes a negative block number to getBlock, whatever
\* the head's number is; a search step that targets a negative number ends
\* in the genesis-boundary error instead.
C1_NeverQueriesNegative == \A n \in QueriedNumbers : n >= 0

\* C2: on a chain with non-decreasing timestamps, findBlock of the head's
\* own timestamp (in milliseconds) returns the head block.  Stated for heads
\* above the look-back on chains whose time advances at both rates.
C2_HeadTimestampGivesHead ==
    ( /\ Settled
      /\ head > LOOKBACK
      /\ target = MILLIS * Timestamp(chain, head)
      /\ chain.early[1] > 0
      /\ chain.late[1] > 0 )
    => (fbResult.kind = "ok" /\ fbResult.block.number = head)

\* C3: findBlock fails with the future-timestamp error exactly when the
\* target, in seconds, is strictly greater than the timestamp of the head
\* block it fetched, and then the head query is the only query it issued.
C3_FutureErrorExactlyWhenAfterHead ==
    /\ fbpc # "head" =>
         (fbResult.kind = "future" <=> target > MILLIS * currentBlock.timestamp)
    /\ fbResult.kind = "future" => calls = <<Latest>>
    /\ fbpc = "head" => fbResult.kind = "pending"

\* C3's case: a target 1 ms after the head's timestamp was refused
C3_Witness ==
    /\ fbResult.kind = "future"
    /\ target = MILLIS * currentBlock.timestamp + 1
    /\ Len(calls) = 1

\* the chain has one spacing of s >= 1 whole seconds throughout
ConstantSpacing == chain.early = chain.late /\ chain.late[2] = 1 /\ chain.late[1] >= 1

\* C4: with constant spacing s and a head of at least 10,000, findBlock of a
\* target at or between the timestamps of two adjacent blocks (block 0 up to
\* the head) returns a block less than s seconds from the target, after at
\* most one search step from the reference block.
C4_ConstantSpacingOneStep ==
    ( /\ Settled
      /\ ConstantSpacing
      /\ head >= LOOKBACK
      /\ target >= MILLIS * Timestamp(chain, 0)
      /\ target <= MILLIS * Timestamp(chain, head) )
    => /\ fbResult.kind = "ok"
       /\ Abs(MILLIS * fbResult.block.timestamp - target) < MILLIS * chain.late[1]
       /\ Len(calls) <= 3

\* C5: the genesis-boundary error reports the timestamp of block 0.
C5_GenesisErrorReportsGenesis ==
    fbResult.kind = "genesis" => fbResult.reported = Timestamp(chain, 0)

----------------------------------------------------------------------------
(* Properties of estimateGasPrice *)

\* the i-th reward entries of the rows the attempt's fee history holds
Column(i) == [k \in 1 .. Len(reqHistory.val) |-> HexValue(reqHistory.val[k][i])]

\* v is the k-th smallest of the samples
IsKth(samples, v, k) ==
    /\ \E j \in 1 .. Len(samples) : samples[j] = v
    /\ Cardinality({j \in 1 .. Len(samples) : samples[j] < v}) < k
    /\ Cardinality({j \in 1 .. Len(samples) : samples[j] <= v}) >= k

\* m2 is twice the median of the samples
IsMedian2(samples, m2) ==
    LET n == Len(samples)
        values == {samples[j] : j \in 1 .. n}
    IN  IF n = 0 THEN m2 = 0
        ELSE IF n % 2 = 1 THEN \E v \in values : IsKth(samples, v, (n + 1) \div 2) /\ m2 = 2 * v
        ELSE \E a, b \in values :
               IsKth(samples, a, n \div 2) /\ IsKth(samples, b, n \div 2 + 1) /\ m2 = a + b

\* n is x / 4 rounded to the nearest integer, a half going up
IsRounded4(n, x) == 4 * n - x \in -1 .. 2

\* the doubled medians a column of samples can have
Candidates2(samples) ==
    {0} \cup {samples[j] + samples[k] : j, k \in 1 .. Len(samples)}

TierAt(est, i) == IF i = 1 THEN est.slow ELSE IF i = 2 THEN est.med ELSE est.fast

\* C6: in a successful estimate, for each tier i, tip_i is the median of the
\* i-th reward entries of the fee-history rows rounded to an integer, and
\* max_i is baseFeePerGas * 1.25 plus that median, rounded to an integer.
C6_TiersAreMedians ==
    gResult.kind = "ok" =>
      \A i \in 1 .. 3 :
        \E m2 \in Candidates2(Column(i)) :
          /\ IsMedian2(Column(i), m2)
          /\ IsRounded4(TierAt(gResult, i).tip, 2 * m2)
          /\ IsRounded4(TierAt(gResult, i).max, 5 * gResult.baseFeePerGas + 2 * m2)

\* C6's case: the samples [[1,2,3],[3,4,5],[5,6,7]] gave the tips 3, 4, 5
C6_Witness ==
    /\ gResult.kind = "ok"
    /\ reqHistory.val = << << <<1>>, <<2>>, <<3>> >>,
                           << <<3>>, <<4>>, <<5>> >>,
                           << <<5>>, <<6>>, <<7>> >> >>
    /\ gResult.slow.tip = 3
    /\ gResult.med.tip = 4
    /\ gResult.fast.tip = 5

\* C7: when the fee-history request fails while the pending-block and the
\* block-number requests succeed, the attempt in which that happens returns
\* an estimate (no error, no retry) with tip 0 in every tier and max equal
\* to baseFeePerGas * 1.25 rounded in every tier.
C7_HistoryFailureAbsorbed ==
    [][ ( /\ gpc = "await"
          /\ reqHistory'.st # "inflight" /\ reqHistory'.failed
          /\ reqPending'.st = "ok"
          /\ reqNumber'.st = "ok" )
        => ( /\ gpc' = "done"
             /\ attempt' = attempt
             /\ gResult'.kind = "ok"
             /\ \A i \in 1 .. 3 :
                  /\ TierAt(gResult', i).tip = 0
                  /\ IsRounded4(TierAt(gResult', i).max, 5 * gResult'.baseFeePerGas) ) ]_vars

\* C7's case: the first attempt returned an estimate although the fee
\* history, which had rows to give, was rejected
C7_Witness ==
    /\ gResult.kind = "ok"
    /\ attempt = 1
    /\ reqHistory.failed
    /\ feeRows # << >>
    /\ gResult.fast.tip = 0
    /\ gResult.fast.max = 4

\* C8: the pendingBlockNumber of an estimate is the value that attempt's
\* getBlockNumber request returned, plus 1, in whatever order the three
\* responses came.
C8_PendingIsLatestPlusOne ==
    gResult.kind = "ok" => gResult.pendingBlockNumber = reqNumber.val + 1

\* C8's case: the block number was answered before the chain gained a block
\* and the pending block after, so the pending block's own number differs
C8_Witness ==
    /\ gResult.kind = "ok"
    /\ reqPending.val.number # reqNumber.val + 1

\* C9: the baseFeePerGas of an estimate is the pending block's baseFeePerGas
\* whenever the block carries the field, for every non-negative value, and
\* 1e8 when the field is absent.
C9_BaseFeeIsTheBlocksField ==
    gResult.kind = "ok" =>
      gResult.baseFeePerGas =
        IF reqPending.val.has THEN reqPending.val.fee ELSE DEFAULT_BASE_FEE

\* C10: an attempt whose pending-block or block-number request fails yields
\* no estimate; keepTrying runs the whole three-request attempt again, the
\* error reaches the caller only when the last attempt has failed, and a
\* later attempt in which the requests succeed returns an estimate.
C10_FailedAttemptIsRetried ==
    [][ /\ ( gpc = "await" /\ (reqPending'.st = "err" \/ reqNumber'.st = "err") )
           => IF attempt < MaxAttempts
              THEN gpc' = "start" /\ attempt' = attempt + 1 /\ gResult'.kind = "pending"
              ELSE gpc' = "done" /\ gResult'.kind = "error"
        /\ ( gpc = "start" /\ gpc' # "start" )
           => /\ gpc' = "await"
              /\ reqPending'.st = "inflight"
              /\ reqNumber'.st = "inflight"
              /\ reqHistory'.st = "inflight"
        /\ gResult'.kind = "error" => attempt' = MaxAttempts
        /\ gResult'.kind = "ok" => reqPending'.st = "ok" /\ reqNumber'.st = "ok"
        /\ ( /\ gpc = "await"
             /\ reqPending'.st = "ok" /\ reqNumber'.st = "ok" /\ reqHistory'.st = "ok" )
           => gpc' = "done" /\ gResult'.kind = "ok" ]_vars

\* C10's case: the first attempt failed and the second returned an estimate
C10_Witness == gResult.kind = "ok" /\ attempt = 2

----------------------------------------------------------------------------
(* Termination of findBlock *)

\* the block number the i-th request asked for, and the number of the block
\* it gave (block(0) asks for "latest" and gives the head)
AskedAt(i) == IF calls[i].tag = "latest" THEN 0 ELSE calls[i].n

CandidateAt(i) == IF calls[i].tag = "latest" THEN head ELSE calls[i].n

\* the candidate and the closestDistance with which the loop test is
\* evaluated after the i-th request, i >= 3
LoopStateAt(i) == <<CandidateAt(i), Abs(CandidateAt(i - 1) - AskedAt(i))>>

\* C11: findBlock terminates: the growth guard rules out oscillation, so on a
\* chain that stands still the search never comes back to a candidate with
\* the closestDistance it had there before (from such a pair the loop, which
\* is a function of the pair, would repeat for ever).  Stated for the runs
\* in which no request after the head's asked for block 0.
C11_SearchNeverRevisits ==
    ( /\ fbpc = "loop" /\ mined = 0 /\ ~inexact
      /\ \A i \in 2 .. Len(calls) : calls[i].tag = "number" )
    => \A i, j \in 3 .. Len(calls) : i < j => LoopStateAt(i) # LoopStateAt(j)

----------------------------------------------------------------------------
(* Ordering of the tiers *)

\* every row of the attempt's fee history has r[0] <= r[1] <= r[2]
RowsOrdered ==
    \A k \in 1 .. Len(reqHistory.val) :
      /\ HexValue(reqHistory.val[k][1]) <= HexValue(reqHistory.val[k][2])
      /\ HexValue(reqHistory.val[k][2]) <= HexValue(reqHistory.val[k][3])

TiersOrdered(est) ==
    /\ est.slow.tip <= est.med.tip /\ est.med.tip <= est.fast.tip
    /\ est.slow.max <= est.med.max /\ est.med.max <= est.fast.max

\* C12: when every fee-history row is non-decreasing, the estimate has
\* tip_slow <= tip_med <= tip_fast and max_slow <= max_med <= max_fast, for
\* any number of rows (none included) and any base fee.
C12_OrderedRowsGiveOrderedTiers ==
    (gResult.kind = "ok" /\ RowsOrdered) => TiersOrdered(gResult)

\* C12's case: an estimate from two ordered rows, whose medians are means
C12_Witness ==
    /\ gResult.kind = "ok"
    /\ RowsOrdered
    /\ Len(reqHistory.val) = 2
    /\ reqHistory.val[1] # reqHistory.val[2]
    /\ gResult.slow.tip < gResult.fast.tip

\* the other half of C12: an estimate from a row that is not ordered whose
\* tiers are not ordered
C12_UnorderedRowsCanBreakOrder ==
    gResult.kind = "ok" /\ ~RowsOrdered /\ ~TiersOrdered(gResult)

----------------------------------------------------------------------------
(* Properties of the client handle *)

\* before any handle is set, and with no client to inject, web3() throws and
\* hasWeb3Instance() is false
UnsetFails ==
    (lastSet = Never /\ hardhat = NoHandle) =>
      /\ lastCall.op = "web3" => lastCall.gave = "error"
      /\ lastCall.op = "hasWeb3Instance" => lastCall.gave = "false"

\* C13 as stated: once a handle has been set, every later web3() call
\* returns that first handle and hasWeb3Instance() stays true; before any
\* handle is set web3() fails and hasWeb3Instance() is false.
C13_FirstHandleKept ==
    /\ Truthy(firstSet) =>
         /\ lastCall.op = "web3" => lastCall.gave = firstSet
         /\ lastCall.op = "hasWeb3Instance" => lastCall.gave = "true"
    /\ UnsetFails

\* C13, amended: whenever the latest setWeb3Instance call passed a handle,
\* web3() returns that latest handle and hasWeb3Instance() is true; before
\* any setWeb3Instance call, with no client to inject, web3() fails and
\* hasWeb3Instance() is false.
C13_LatestHandleUsed ==
    /\ lastSet \in Handles =>
         /\ lastCall.op = "web3" => lastCall.gave = lastSet
         /\ lastCall.op = "hasWeb3Instance" => lastCall.gave = "true"
    /\ UnsetFails

\* C13's case: web3() after a second handle replaced the first
C13_Witness ==
    /\ lastCall = [op |-> "web3", gave |-> "B"]
    /\ firstSet = "A"
    /\ lastSet = "B"

====
